---- MODULE Spec2Model ----
(***************************************************************************)
(* A model of system_info.py: the formatters BytesToHuman and SafeGet, the *)
(* parser LoadOsRelease, and main(), the linear run that hides the cursor, *)
(* collects the facts, builds the table section by section and prints it.  *)
(*                                                                         *)
(* Text the program only concatenates is a TLA+ string.  Text the program  *)
(* takes apart (the os-release file) is a sequence of one-character        *)
(* strings.  A Python int that can exceed 32 bits (a byte count) is a      *)
(* little-endian sequence of base-1024 limbs without leading zero limbs.   *)
(***************************************************************************)
EXTENDS Integers, Sequences, FiniteSets, TLC

VARIABLES
    pc,              \* position of main(), or "call"/"ret" of a function under test
    cursor,          \* TRUE iff the terminal cursor is visible
    table,           \* the calls made on the rich Table: rows and section breaks
    output,          \* what console.print wrote: a sequence of tables
    error,           \* the exception that ended the run, "none" while there is none
    exitStatus,      \* the process exit status, -1 while the process runs
    env,             \* the host the run observes (files, collectors, network)
    cpu_info,        \* main's local cpu_info
    vmem,            \* main's local vmem
    root_partition,  \* main's local root_partition
    if_addrs,        \* main's local if_addrs
    os_release,      \* main's local os_release
    arg,             \* the argument of the function under test
    result           \* the outcome of the function under test

vars == <<pc, cursor, table, output, error, exitStatus, env, cpu_info, vmem,
          root_partition, if_addrs, os_release, arg, result>>

mainVars == <<cursor, table, output, error, exitStatus, env, cpu_info, vmem,
              root_partition, if_addrs, os_release>>

-----------------------------------------------------------------------------
(* Bounds of the model.                                                    *)

\* Byte counts under test are s * 1024^k (+ 1) for k in 0..MaxShift.
MaxShift == 10
\* IPv4/IPv6 addresses bound to one interface.
MaxAddrs == 2
\* Characters of a generated os-release line (before its newline).
MaxLineLen == 4

-----------------------------------------------------------------------------
(* Python values and str().                                                *)

IntVal(n) == [t |-> "int", v |-> n]
StrVal(s) == [t |-> "str", v |-> s]

Digit(d) ==
    CASE d = 0 -> "0" [] d = 1 -> "1" [] d = 2 -> "2" [] d = 3 -> "3"
      [] d = 4 -> "4" [] d = 5 -> "5" [] d = 6 -> "6" [] d = 7 -> "7"
      [] d = 8 -> "8" [] d = 9 -> "9"

\* the characters of a string, joined
RECURSIVE Join(_)
Join(cs) == IF cs = <<>> THEN "" ELSE Head(cs) \o Join(Tail(cs))

\* the characters of str(n), for a non-negative int that fits a machine word
RECURSIVE DecChars(_)
DecChars(n) == IF n < 10 THEN <<Digit(n)>> ELSE DecChars(n \div 10) \o <<Digit(n % 10)>>

Dec(n) == Join(DecChars(n))

\* str(x)
Str(x) == IF x.t = "int" THEN Dec(x.v) ELSE x.v

-----------------------------------------------------------------------------
(* Arbitrary-precision non-negative ints: little-endian base-1024 limbs.   *)

Base == 1024

RECURSIVE Norm(_)
Norm(n) == IF n # <<>> /\ n[Len(n)] = 0 THEN Norm(SubSeq(n, 1, Len(n) - 1)) ELSE n

Zeros(k) == [j \in 1..k |-> 0]

\* n * 1024^k
ShiftLimbs(n, k) == IF n = <<>> THEN <<>> ELSE Zeros(k) \o n

\* n // 1024^k and n % 1024^k
HighLimbs(n, k) == IF Len(n) <= k THEN <<>> ELSE SubSeq(n, k + 1, Len(n))
LowLimbs(n, k) == Norm(IF Len(n) <= k THEN n ELSE SubSeq(n, 1, k))

\* n * m + c for small m, c
RECURSIVE MulSmall(_, _, _)
MulSmall(n, m, c) ==
    IF n = <<>> THEN (IF c = 0 THEN <<>> ELSE <<c>>)
    ELSE LET p == Head(n) * m + c
         IN  <<p % Base>> \o MulSmall(Tail(n), m, p \div Base)

\* divmod(n, m) for small m, as [q, r]; limbs are consumed from the top
RECURSIVE DivSmallRaw(_, _, _)
DivSmallRaw(n, m, r) ==
    IF n = <<>> THEN [q |-> <<>>, r |-> r]
    ELSE LET cur  == r * Base + n[Len(n)]
             rest == DivSmallRaw(SubSeq(n, 1, Len(n) - 1), m, cur % m)
         IN  [q |-> rest.q \o <<cur \div m>>, r |-> rest.r]

DivSmall(n, m) ==
    LET d == DivSmallRaw(n, m, 0) IN [q |-> Norm(d.q), r |-> d.r]

\* six decimal digits of n < 10^6, zero-padded
Dec6(n) ==
    << Digit(n \div 100000), Digit((n \div 10000) % 10), Digit((n \div 1000) % 10),
       Digit((n \div 100) % 10), Digit((n \div 10) % 10), Digit(n % 10) >>

\* the characters of str(n) for an int of any size, six digits at a time
RECURSIVE DecLimbs(_)
DecLimbs(n) ==
    IF Len(n) <= 1 THEN DecChars(IF n = <<>> THEN 0 ELSE n[1])
    ELSE LET d == DivSmall(n, 1000000) IN
         IF d.q = <<>> THEN DecChars(d.r) ELSE DecLimbs(d.q) \o Dec6(d.r)

\* -1, 0, 1 as a < b, a = b, a > b (both normalised)
RECURSIVE CmpLimbs(_, _)
CmpLimbs(a, b) ==
    IF Len(a) # Len(b) THEN (IF Len(a) < Len(b) THEN -1 ELSE 1)
    ELSE IF a = <<>> THEN 0
    ELSE IF a[Len(a)] # b[Len(b)] THEN (IF a[Len(a)] < b[Len(b)] THEN -1 ELSE 1)
    ELSE CmpLimbs(Norm(SubSeq(a, 1, Len(a) - 1)), Norm(SubSeq(b, 1, Len(b) - 1)))

\* the int n as limbs, for n that fits a machine word
RECURSIVE ToLimbs(_)
ToLimbs(n) == IF n = 0 THEN <<>> ELSE <<n % Base>> \o ToLimbs(n \div Base)

-----------------------------------------------------------------------------
(* IEEE-754 doubles, as far as line 45 uses them: int -> float, division   *)
(* by a power of 1024, and the "%.1f" rendering.                           *)

\* bit length of a limb
BitLen(t) == CHOOSE L \in 0..10 : t < 2^L /\ (L = 0 \/ t >= 2^(L - 1))

\* bit length of an int
Bits(n) == IF n = <<>> THEN 0 ELSE 10 * (Len(n) - 1) + BitLen(n[Len(n)])

\* The first int that no longer converts: 2^1024 - 2^970 rounds to 2^1024.
FloatLimit == Zeros(97) \o <<1023, 1023, 1023, 1023, 1023, 15>>

\* int -> float raises OverflowError
FloatOverflows(n) == CmpLimbs(n, FloatLimit) >= 0

\* float(n), as the int it equals: n rounded half-even to 53 significant bits
ToDouble(n) ==
    IF Bits(n) <= 53 THEN n
    ELSE LET d    == Bits(n) - 53
             a    == d \div 10
             b    == d % 10
             dv   == DivSmall(HighLimbs(n, a), 2^b)
             lo   == LowLimbs(n, a)
             topl == IF Len(lo) = a /\ a > 0 THEN lo[a] ELSE 0
             rest == IF a > 0 THEN LowLimbs(lo, a - 1) ELSE <<>>
             cmp  == IF b > 0
                     THEN (IF dv.r # 2^(b - 1)
                           THEN (IF dv.r < 2^(b - 1) THEN -1 ELSE 1)
                           ELSE (IF lo = <<>> THEN 0 ELSE 1))
                     ELSE (IF topl # 512
                           THEN (IF topl < 512 THEN -1 ELSE 1)
                           ELSE (IF rest = <<>> THEN 0 ELSE 1))
             odd  == dv.q # <<>> /\ dv.q[1] % 2 = 1
             up   == cmp > 0 \/ (cmp = 0 /\ odd)
             q    == IF up THEN MulSmall(dv.q, 1, 1) ELSE dv.q
         IN  ShiftLimbs(MulSmall(q, 2^b, 0), a)

\* f"{m / 1024^e:.1f}" for a double m: the exact quotient, rounded half-even
\* to one decimal as the correctly rounded "%.1f" does.
FormatF1(m, e) ==
    LET whole  == HighLimbs(m, e)
        frac   == LowLimbs(m, e)
        ten    == MulSmall(frac, 10, 0)
        t      == IF Len(ten) > e THEN ten[e + 1] ELSE 0
        rem    == LowLimbs(ten, e)
        topl   == IF Len(rem) = e /\ e > 0 THEN rem[e] ELSE 0
        rest   == IF e > 0 THEN LowLimbs(rem, e - 1) ELSE <<>>
        cmp    == IF topl # 512
                  THEN (IF topl < 512 THEN -1 ELSE 1)
                  ELSE (IF rest = <<>> THEN 0 ELSE 1)
        up     == cmp > 0 \/ (cmp = 0 /\ t % 2 = 1)
        tenth  == IF up THEN t + 1 ELSE t
        whole2 == IF tenth = 10 THEN MulSmall(whole, 1, 1) ELSE whole
    IN  DecLimbs(whole2) \o <<".", Digit(tenth % 10)>>

-----------------------------------------------------------------------------
(* BytesToHuman, lines 35-48.                                              *)

units == <<"B", "K", "M", "G", "T", "P", "E", "Z", "Y">>

\* How a call ends: it returns a string (its characters), returns None, or
\* raises.
Return(v) == [kind |-> "return", value |-> v]
ReturnNone == [kind |-> "none", value |-> <<>>]
Raise(e) == [kind |-> "raise", value |-> <<e>>]

\* One pass of the for loop at 0-based index i; current_unit_size is
\* 1024^cur.  next_unit_size is math.pow(1024, i + 1), and Python compares an
\* int with a float exactly, so num_bytes < next_unit_size is a limb count.
RECURSIVE BytesLoop(_, _, _)
BytesLoop(num_bytes, i, cur) ==
    IF i >= Len(units) THEN ReturnNone
    ELSE IF Len(num_bytes) <= i + 1 \/ units[i + 1] = units[Len(units)]
    THEN IF FloatOverflows(num_bytes)
         THEN Raise("OverflowError")
         ELSE Return(FormatF1(ToDouble(num_bytes), cur) \o <<units[i + 1]>>)
    ELSE BytesLoop(num_bytes, i + 1, i + 1)

\* current_unit_size starts at 1024 (line 38)
BytesToHuman(num_bytes) == BytesLoop(num_bytes, 0, 1)


-----------------------------------------------------------------------------
(* Python dicts: a function whose domain is the set of keys.               *)

EmptyDict == <<>>

\* d.get(k, default)
DictGet(d, k, default) == IF k \in DOMAIN d THEN d[k] ELSE default

\* d[k] = v
DictSet(d, k, v) == [x \in DOMAIN d \cup {k} |-> IF x = k THEN v ELSE d[x]]

-----------------------------------------------------------------------------
(* SafeGet, lines 51-52.                                                   *)

\* a falsy value would be replaced too: d.get(k) or "????"
SafeGetFalsy(d, k) ==
    LET x == DictGet(d, k, StrVal("????"))
    IN  IF x \in {IntVal(0), StrVal("")} THEN "????" ELSE Str(x)

SafeGet(d, k) == Str(DictGet(d, k, StrVal("????")))

-----------------------------------------------------------------------------
(* LoadOsRelease, lines 55-66.                                             *)

\* first index of character c in s, 0 when there is none
IndexOf(s, c) ==
    IF \E j \in 1..Len(s) : s[j] = c
    THEN CHOOSE j \in 1..Len(s) : s[j] = c /\ \A h \in 1..(j - 1) : s[h] # c
    ELSE 0

\* the lines a text file yields when iterated: each keeps its newline
RECURSIVE FileLines(_)
FileLines(content) ==
    IF content = <<>> THEN <<>>
    ELSE LET j == IndexOf(content, "\n")
         IN  IF j = 0 THEN <<content>>
             ELSE <<SubSeq(content, 1, j)>> \o FileLines(SubSeq(content, j + 1, Len(content)))

\* s.split(sep): cut at every occurrence of sep
RECURSIVE Split(_, _)
Split(s, sep) ==
    LET j == IndexOf(s, sep)
    IN  IF j = 0 THEN <<s>>
        ELSE <<SubSeq(s, 1, j - 1)>> \o Split(SubSeq(s, j + 1, Len(s)), sep)

\* s.lstrip(chars), s.rstrip(chars), s.strip(chars)
RECURSIVE LStrip(_, _)
LStrip(s, chars) ==
    IF s # <<>> /\ Head(s) \in chars THEN LStrip(Tail(s), chars) ELSE s

RECURSIVE RStrip(_, _)
RStrip(s, chars) ==
    IF s # <<>> /\ s[Len(s)] \in chars THEN RStrip(SubSeq(s, 1, Len(s) - 1), chars) ELSE s

Strip(s, chars) == RStrip(LStrip(s, chars), chars)

\* '" \n'
OsReleaseTrim == {"\"", " ", "\n"}

\* the body of the for loop, lines 62-64
OsReleaseLine(results, line) ==
    IF IndexOf(line, "=") # 0
    THEN LET pieces == Split(line, "=")
         IN  DictSet(results, Strip(pieces[1], OsReleaseTrim), Strip(pieces[2], OsReleaseTrim))
    ELSE results

RECURSIVE OsReleaseLoop(_, _)
OsReleaseLoop(results, lines) ==
    IF lines = <<>> THEN results
    ELSE OsReleaseLoop(OsReleaseLine(results, Head(lines)), Tail(lines))

\* file: [exists, content], the file at /etc/os-release
LoadOsRelease(file) ==
    IF file.exists THEN OsReleaseLoop(EmptyDict, FileLines(file.content)) ELSE EmptyDict

-----------------------------------------------------------------------------
(* main(), lines 69-155: the rich Table is the sequence of calls made on   *)
(* it, add_row(label, value) and add_section().                            *)

Row(label, value) == [kind |-> "row", label |-> label, value |-> value]
SectionBreak == [kind |-> "section", label |-> "", value |-> ""]

AF_INET == 2

\* f"{x:.1f}" of a percentage psutil reports with one decimal, held in tenths
Percent(tenths) == Dec(tenths \div 10) \o "." \o Digit(tenths % 10)

\* two decimal digits, zero-padded
Dec2(n) == Digit(n \div 10) \o Digit(n % 10)

\* str(datetime.timedelta(seconds=s)) for s >= 0
TimedeltaStr(s) ==
    LET days == s \div 86400
        rem  == s % 86400
        hms  == Dec(rem \div 3600) \o ":" \o Dec2((rem % 3600) \div 60) \o ":" \o Dec2(rem % 60)
    IN  IF days = 0 THEN hms
        ELSE IF days = 1 THEN "1 day, " \o hms
        ELSE Dec(days) \o " days, " \o hms

\* lines 118-121: the IPv4 addresses of one interface, formatted
RECURSIVE Values(_)
Values(addrs) ==
    IF addrs = <<>> THEN <<>>
    ELSE LET a == Head(addrs)
         IN  (IF a.family = AF_INET
              THEN <<a.address \o " (" \o a.netmask \o ")">>
              ELSE <<>>) \o Values(Tail(addrs))

\* every row would repeat the interface name
LabelsRepeated(interface, values) ==
    [j \in 1..(IF values = <<>> THEN 1 ELSE Len(values)) |-> interface \o ":"]

\* line 122: [f"{interface}:"] + [""] * (len(values) - 1)
Labels(interface, values) ==
    <<interface \o ":">> \o [j \in 1..(Len(values) - 1) |-> ""]

\* lines 123-124: one add_row per pair of zip(labels, values)
ZipRows(labels, values) ==
    [j \in 1..(IF Len(labels) < Len(values) THEN Len(labels) ELSE Len(values)) |->
        Row(labels[j], values[j])]

\* lines 117-124: the loop over if_addrs.items(), in the dict's order
RECURSIVE NetworkRows(_)
NetworkRows(items) ==
    IF items = <<>> THEN <<>>
    ELSE LET values == Values(Head(items).addrs)
         IN  ZipRows(Labels(Head(items).interface, values), values)
                 \o NetworkRows(Tail(items))

Running ==
    {"start", "table", "status", "collect", "cpu", "mem", "disk", "net", "geo", "os",
     "python", "uptime", "print"}

\* an uncaught exception ends the process: traceback, exit status 1
Fail(exc) ==
    /\ pc' = "failed"
    /\ error' = exc
    /\ exitStatus' = 1

\* lines 72-73: console = MonokaiConsole(); console.show_cursor(False)
HideCursor ==
    /\ pc = "start"
    /\ cursor' = FALSE
    /\ pc' = "table"
    /\ UNCHANGED <<table, output, error, exitStatus, env, cpu_info, vmem, root_partition,
                   if_addrs, os_release, arg, result>>

\* lines 76-79: the empty three-column table
NewTable ==
    /\ pc = "table"
    /\ table' = <<>>
    /\ pc' = "status"
    /\ UNCHANGED <<cursor, output, error, exitStatus, env, cpu_info, vmem, root_partition,
                   if_addrs, os_release, arg, result>>

\* line 82: entering console.Status("Loading...")
EnterStatus ==
    /\ pc = "status"
    /\ pc' = "collect"
    /\ UNCHANGED <<mainVars, arg, result>>

\* Leaving the with block runs the console library's exit handler; whether
\* that handler shows the cursor again is the library's choice (env).
StatusExit == IF env.statusShowsCursor THEN TRUE ELSE cursor

\* lines 83-87 and the end of the with block
Collect ==
    /\ pc = "collect"
    /\ cpu_info' = env.cpu_info
    /\ vmem' = env.vmem
    /\ root_partition' = env.root_partition
    /\ if_addrs' = env.if_addrs
    /\ os_release' = LoadOsRelease(env.os_release_file)
    /\ cursor' = StatusExit
    /\ pc' = "cpu"
    /\ UNCHANGED <<table, output, error, exitStatus, env, arg, result>>

\* lines 90-100
CpuSection ==
    /\ pc = "cpu"
    /\ table' =
           table
               \o << Row("cpu:", SafeGet(cpu_info, "brand_raw")),
                     Row("cores:", SafeGet(cpu_info, "count") \o " x "
                                       \o SafeGet(cpu_info, "hz_actual_friendly")),
                     Row("arch:", SafeGet(cpu_info, "arch_string_raw")) >>
               \o (IF env.model_file.exists
                   THEN <<Row("model:", Join(Strip(env.model_file.content, {" ", "\n"})))>>
                   ELSE <<>>)
               \o <<SectionBreak>>
    /\ pc' = "mem"
    /\ UNCHANGED <<cursor, output, error, exitStatus, env, cpu_info, vmem, root_partition,
                   if_addrs, os_release, arg, result>>

\* lines 103-106
MemorySection ==
    /\ pc = "mem"
    /\ table' =
           table
               \o << Row("mem:", Join(BytesToHuman(vmem.used).value) \o " / "
                                     \o Join(BytesToHuman(vmem.total).value)
                                     \o "  (" \o Percent(vmem.percent) \o "%)"),
                     SectionBreak >>
    /\ pc' = "disk"
    /\ UNCHANGED <<cursor, output, error, exitStatus, env, cpu_info, vmem, root_partition,
                   if_addrs, os_release, arg, result>>

\* lines 109-114
DiskSection ==
    /\ pc = "disk"
    /\ table' =
           table
               \o << Row("disk:", Join(BytesToHuman(root_partition.used).value) \o " / "
                                      \o Join(BytesToHuman(root_partition.total).value)
                                      \o " (" \o Percent(root_partition.percent) \o "%)"),
                     SectionBreak >>
    /\ pc' = "net"
    /\ UNCHANGED <<cursor, output, error, exitStatus, env, cpu_info, vmem, root_partition,
                   if_addrs, os_release, arg, result>>

\* lines 117-125
NetworkSection ==
    /\ pc = "net"
    /\ table' = table \o NetworkRows(if_addrs) \o <<SectionBreak>>
    /\ pc' = "geo"
    /\ UNCHANGED <<cursor, output, error, exitStatus, env, cpu_info, vmem, root_partition,
                   if_addrs, os_release, arg, result>>

\* the failed request would still print what was built
GeoSectionPrintsPartial ==
    /\ pc = "geo"
    /\ IF env.geo.ok
       THEN /\ table' =
                   table
                       \o << Row("public ip:", SafeGet(env.geo.ip_info, "ip")),
                             Row("location: ",
                                 SafeGet(env.geo.ip_info, "city") \o ", "
                                     \o SafeGet(env.geo.ip_info, "region") \o ", "
                                     \o SafeGet(env.geo.ip_info, "country")),
                             SectionBreak >>
            /\ pc' = "os"
            /\ UNCHANGED <<error, exitStatus, output>>
       ELSE /\ Fail(env.geo.exc)
            /\ output' = Append(output, table)
            /\ UNCHANGED table
    /\ UNCHANGED <<cursor, env, cpu_info, vmem, root_partition, if_addrs, os_release,
                   arg, result>>

\* lines 128-135: urlopen or json.load raises, or the rows are added
GeoSection ==
    /\ pc = "geo"
    /\ IF env.geo.ok
       THEN /\ table' =
                   table
                       \o << Row("public ip:", SafeGet(env.geo.ip_info, "ip")),
                             Row("location: ",
                                 SafeGet(env.geo.ip_info, "city") \o ", "
                                     \o SafeGet(env.geo.ip_info, "region") \o ", "
                                     \o SafeGet(env.geo.ip_info, "country")),
                             SectionBreak >>
            /\ pc' = "os"
            /\ UNCHANGED <<error, exitStatus>>
       ELSE /\ Fail(env.geo.exc)
            /\ UNCHANGED table
    /\ UNCHANGED <<cursor, output, env, cpu_info, vmem, root_partition, if_addrs,
                   os_release, arg, result>>

KeyNAME == <<"N", "A", "M", "E">>
KeyVERSION_ID == <<"V", "E", "R", "S", "I", "O", "N", "_", "I", "D">>
KeyVERSION_CODENAME ==
    <<"V", "E", "R", "S", "I", "O", "N", "_", "C", "O", "D", "E", "N", "A", "M", "E">>

\* lines 138-142: os_release[...] raises KeyError on a key that is absent
OsSection ==
    /\ pc = "os"
    /\ IF {KeyNAME, KeyVERSION_ID, KeyVERSION_CODENAME} \subseteq DOMAIN os_release
       THEN /\ table' =
                   table
                       \o << Row("os:", Join(os_release[KeyNAME]) \o " "
                                            \o Join(os_release[KeyVERSION_ID]) \o " ("
                                            \o Join(os_release[KeyVERSION_CODENAME]) \o ")"),
                             SectionBreak >>
            /\ pc' = "python"
            /\ UNCHANGED <<error, exitStatus>>
       ELSE /\ Fail("KeyError")
            /\ UNCHANGED table
    /\ UNCHANGED <<cursor, output, env, cpu_info, vmem, root_partition, if_addrs,
                   os_release, arg, result>>

\* the runtime row would go in without its section break
PythonSectionNoBreak ==
    /\ pc = "python"
    /\ table' = table \o <<Row("python:", env.python_version)>>
    /\ pc' = "uptime"
    /\ UNCHANGED <<cursor, output, error, exitStatus, env, cpu_info, vmem, root_partition,
                   if_addrs, os_release, arg, result>>

\* lines 145-146
PythonSection ==
    /\ pc = "python"
    /\ table' = table \o <<Row("python:", env.python_version), SectionBreak>>
    /\ pc' = "uptime"
    /\ UNCHANGED <<cursor, output, error, exitStatus, env, cpu_info, vmem, root_partition,
                   if_addrs, os_release, arg, result>>

\* lines 149-153
UptimeSection ==
    /\ pc = "uptime"
    /\ table' =
           table \o <<Row("uptime:", TimedeltaStr(env.now_seconds - env.boot_seconds)),
                      SectionBreak>>
    /\ pc' = "print"
    /\ UNCHANGED <<cursor, output, error, exitStatus, env, cpu_info, vmem, root_partition,
                   if_addrs, os_release, arg, result>>

\* line 155, then main returns and the process exits with status 0
PrintTable ==
    /\ pc = "print"
    /\ output' = Append(output, table)
    /\ pc' = "done"
    /\ exitStatus' = 0
    /\ UNCHANGED <<cursor, table, error, env, cpu_info, vmem, root_partition, if_addrs,
                   os_release, arg, result>>

\* Ctrl-C: KeyboardInterrupt is raised at the point main has reached.  No
\* handler of main catches it; inside the with block the console library's
\* exit handler runs first.
Interrupt ==
    /\ pc \in Running
    /\ cursor' = IF pc = "collect" THEN StatusExit ELSE cursor
    /\ pc' = "interrupted"
    /\ error' = "KeyboardInterrupt"
    /\ exitStatus' = 130
    /\ UNCHANGED <<table, output, env, cpu_info, vmem, root_partition, if_addrs,
                   os_release, arg, result>>

-----------------------------------------------------------------------------
(* The hosts main() is run on.                                             *)

File(content) == [exists |-> TRUE, content |-> content]
NoFile == [exists |-> FALSE, content |-> <<>>]

\* no call has ended yet
Pending == [kind |-> "pending", value |-> <<>>]

UbuntuName == <<"N", "A", "M", "E", "=", "\"", "U", "b", "u", "n", "t", "u", "\"", "\n">>
UbuntuVersionId ==
    <<"V", "E", "R", "S", "I", "O", "N", "_", "I", "D", "=", "\"", "2", "2", ".", "0", "4", "\"", "\n">>
UbuntuCodename ==
    << "V", "E", "R", "S", "I", "O", "N", "_", "C", "O", "D", "E", "N", "A", "M", "E", "=",
       "j", "a", "m", "m", "y", "\n" >>
\* BUG_URL="http://x/?a=b"
UrlLine ==
    << "B", "U", "G", "_", "U", "R", "L", "=", "\"", "h", "t", "t", "p", ":", "/", "/", "x", "/",
       "?", "a", "=", "b", "\"", "\n" >>
CommentLine == <<"#", " ", "o", "s", "\n">>

SampleLines == {UbuntuName, UbuntuVersionId, UbuntuCodename, UrlLine, CommentLine, <<"\n">>}

UbuntuFile == UbuntuName \o UbuntuVersionId \o UbuntuCodename

CpuInfoFull ==
    ("brand_raw" :> StrVal("Cortex-A72")) @@ ("count" :> IntVal(4))
        @@ ("hz_actual_friendly" :> StrVal("1.5000 GHz"))
        @@ ("arch_string_raw" :> StrVal("aarch64"))

CpuInfoPartial == ("count" :> IntVal(4)) @@ ("arch_string_raw" :> StrVal("aarch64"))

\* 1.5 GiB of 8 GiB, 18.8%
VmemSample == [used |-> <<0, 0, 512, 1>>, total |-> <<0, 0, 0, 8>>, percent |-> 188]

\* 1023 GiB of 1 TiB, 99.9%
DiskSample == [used |-> <<0, 0, 0, 1023>>, total |-> <<0, 0, 0, 0, 1>>, percent |-> 999]

IfaceNames == <<"lo", "eth0">>

\* the j-th address of the i-th interface, of the given family
Addr(i, j, family) ==
    IF family = AF_INET
    THEN [family |-> family, address |-> "10.0." \o Dec(i) \o "." \o Dec(j),
          netmask |-> "255.255.255.0"]
    ELSE [family |-> family, address |-> "fe80::" \o Dec(i) \o ":" \o Dec(j),
          netmask |-> "ffff:ffff:ffff:ffff::"]

\* address families per interface: AF_INET, or 10 (AF_INET6)
FamilyLists == UNION {[1..n -> {AF_INET, 10}] : n \in 0..MaxAddrs}

\* every dict of the first n interfaces, each with up to MaxAddrs addresses
IfAddrs ==
    UNION {
        {[i \in 1..n |->
            [interface |-> IfaceNames[i],
             addrs |-> [j \in 1..Len(fl[i]) |-> Addr(i, j, fl[i][j])]]] :
         fl \in [1..n -> FamilyLists]} :
        n \in 0..Len(IfaceNames)}

IpInfoFull ==
    ("ip" :> StrVal("203.0.113.7")) @@ ("city" :> StrVal("Oslo"))
        @@ ("region" :> StrVal("Oslo")) @@ ("country" :> StrVal("NO"))

IpInfoPartial == ("ip" :> StrVal("203.0.113.7")) @@ ("country" :> StrVal("NO"))

GeoResponses ==
    { [ok |-> TRUE, ip_info |-> IpInfoFull, exc |-> "none"],
      [ok |-> TRUE, ip_info |-> IpInfoPartial, exc |-> "none"],
      [ok |-> FALSE, ip_info |-> EmptyDict, exc |-> "URLError"],
      [ok |-> FALSE, ip_info |-> EmptyDict, exc |-> "JSONDecodeError"] }

OsReleaseSamples ==
    { NoFile, File(UbuntuFile), File(UbuntuName \o UbuntuVersionId), File(CommentLine) }

ModelFiles == { NoFile, File(<<"P", "i", " ", "4", "\n">>) }

Hosts ==
    [ cpu_info : {CpuInfoFull, CpuInfoPartial},
      vmem : {VmemSample},
      root_partition : {DiskSample},
      if_addrs : IfAddrs,
      os_release_file : OsReleaseSamples,
      model_file : ModelFiles,
      geo : GeoResponses,
      statusShowsCursor : BOOLEAN,
      python_version : {"3.11.2"},
      now_seconds : {1700090061},
      boot_seconds : {1700000000} ]

Init ==
    /\ pc = "start"
    /\ cursor = TRUE
    /\ table = <<>>
    /\ output = <<>>
    /\ error = "none"
    /\ exitStatus = -1
    /\ env \in Hosts
    /\ cpu_info = EmptyDict
    /\ vmem = [used |-> <<>>, total |-> <<>>, percent |-> 0]
    /\ root_partition = [used |-> <<>>, total |-> <<>>, percent |-> 0]
    /\ if_addrs = <<>>
    /\ os_release = EmptyDict
    /\ arg = <<>>
    /\ result = Pending

Next ==
    \/ HideCursor
    \/ NewTable
    \/ EnterStatus
    \/ Collect
    \/ CpuSection
    \/ MemorySection
    \/ DiskSection
    \/ NetworkSection
    \/ GeoSection
    \/ OsSection
    \/ PythonSection
    \/ UptimeSection
    \/ PrintTable
    \/ Interrupt

Spec == Init /\ [][Next]_vars

-----------------------------------------------------------------------------
(* BytesToHuman under test: one call on one byte count.                    *)

TopLimbs == {1, 2, 1023}
LowLimbs2 == {1, 51, 52, 256, 512, 1023}

\* the significant limbs: 1..1023 and lo + 1024 * hi
Sigs == {<<a>> : a \in TopLimbs \cup LowLimbs2}
            \cup {<<a, b>> : a \in LowLimbs2, b \in TopLimbs}

\* 0; s * 1024^k; s * 1024^k + 1, which no double holds once it exceeds 53
\* bits; and the two smallest ints of interest that do not convert to a
\* float: 2^1024 - 2^970 and 2^1024.
BytesInputs ==
    {<<>>}
        \cup {ShiftLimbs(s, k) : s \in Sigs, k \in 0..MaxShift}
        \cup {<<1>> \o Zeros(k - 1) \o s : s \in Sigs, k \in 1..MaxShift}
        \cup {FloatLimit, Zeros(102) \o <<16>>}

\* main() is not running
Idle ==
    /\ cursor = TRUE
    /\ table = <<>>
    /\ output = <<>>
    /\ error = "none"
    /\ exitStatus = -1
    /\ env = <<>>
    /\ cpu_info = <<>>
    /\ vmem = <<>>
    /\ root_partition = <<>>
    /\ if_addrs = <<>>
    /\ os_release = <<>>

InitBytes ==
    /\ pc = "call"
    /\ arg \in BytesInputs
    /\ result = Pending
    /\ Idle

CallBytesToHuman ==
    /\ pc = "call"
    /\ result' = BytesToHuman(arg)
    /\ pc' = "ret"
    /\ UNCHANGED <<arg, mainVars>>

NextBytes == CallBytesToHuman

SpecBytes == InitBytes /\ [][NextBytes]_vars

-----------------------------------------------------------------------------
(* Claims about BytesToHuman.                                              *)

DigitChars == {Digit(d) : d \in 0..9}

Range(f) == {f[j] : j \in DOMAIN f}

\* <digits>.<one digit><unit>
HumanShape(s) ==
    /\ Len(s) >= 4
    /\ s[Len(s)] \in Range(units)
    /\ s[Len(s) - 1] \in DigitChars
    /\ s[Len(s) - 2] = "."
    /\ \A j \in 1..(Len(s) - 3) : s[j] \in DigitChars

\* the index of the unit chosen for b: the smallest i with b < 1024^(i+1),
\* or 8 when there is none
UnitIndex(b) ==
    IF \E i \in 0..8 : Len(b) <= i + 1
    THEN CHOOSE i \in 0..8 : Len(b) <= i + 1 /\ \A j \in 0..(i - 1) : Len(b) > j + 1
    ELSE 8

\* C1: for every byte count b, BytesToHuman(b) is b / 1024^i with one decimal
\* digit, followed by the i-th unit, i the index of the unit chosen for b; and
\* 0 -> "0.0B", 1023 -> "1023.0B", 1024 -> "1.0K", 1536 -> "1.5K",
\* 1024^8 -> "1.0Y".
C1_ValueOverUnitSize ==
    pc = "ret" =>
        /\ result = Return(FormatF1(arg, UnitIndex(arg)) \o <<units[UnitIndex(arg) + 1]>>)
        /\ arg = <<>> => result = Return(<<"0", ".", "0", "B">>)
        /\ arg = <<1023>> => result = Return(<<"1", "0", "2", "3", ".", "0", "B">>)
        /\ arg = <<0, 1>> => result = Return(<<"1", ".", "0", "K">>)
        /\ arg = <<512, 1>> => result = Return(<<"1", ".", "5", "K">>)
        /\ arg = Zeros(8) \o <<1>> => result = Return(<<"1", ".", "0", "Y">>)

\* C2: for every byte count b, BytesToHuman(b) returns a string of the shape
\* <digits>.<one digit><unit>, the unit being the one at the smallest index i
\* with b < 1024^(i+1), or Y when b >= 1024^9.
C2_AlwaysReturnsShapedString ==
    pc = "ret" =>
        /\ result.kind = "return"
        /\ HumanShape(result.value)
        /\ result.value[Len(result.value)] = units[UnitIndex(arg) + 1]

\* C2 restricted to the byte counts that convert to a float: those hold.
C2_ShapedStringBelowFloatLimit ==
    (pc = "ret" /\ ~FloatOverflows(arg)) =>
        /\ result.kind = "return"
        /\ HumanShape(result.value)
        /\ result.value[Len(result.value)] = units[UnitIndex(arg) + 1]


-----------------------------------------------------------------------------
(* SafeGet under test: one call on one dict and key.                       *)

NoneVal == [t |-> "none", v |-> "None"]

SafeGetValues == {IntVal(5), IntVal(0), IntVal(120), StrVal("a"), StrVal(""), NoneVal}

SafeGetDicts == UNION {[ks -> SafeGetValues] : ks \in SUBSET {"x", "y"}}

InitSafeGet ==
    /\ pc = "call"
    /\ arg \in {[d |-> d, k |-> k] : d \in SafeGetDicts, k \in {"x", "y", "z"}}
    /\ result = Pending
    /\ Idle

CallSafeGet ==
    /\ pc = "call"
    /\ result' = Return(SafeGet(arg.d, arg.k))
    /\ pc' = "ret"
    /\ UNCHANGED <<arg, mainVars>>

NextSafeGet == CallSafeGet

SpecSafeGet == InitSafeGet /\ [][NextSafeGet]_vars

\* C9: SafeGet(d, k) is the string form of d[k] when k is a key of d and
\* "????" otherwise, and it returns; SafeGet({}, "x") = "????" and
\* SafeGet({"x": 5}, "x") = "5".
C9_SafeGet ==
    pc = "ret" =>
        /\ result.kind = "return"
        /\ arg.k \in DOMAIN arg.d => result.value = Str(arg.d[arg.k])
        /\ arg.k \notin DOMAIN arg.d => result.value = "????"
        /\ (arg.d = EmptyDict /\ arg.k = "x") => result.value = "????"
        /\ (DOMAIN arg.d = {"x"} /\ arg.d["x"] = IntVal(5) /\ arg.k = "x") => result.value = "5"
        /\ (arg.k \in DOMAIN arg.d /\ arg.d[arg.k] = IntVal(120)) => result.value = "120"
        /\ (arg.k \in DOMAIN arg.d /\ arg.d[arg.k] = IntVal(0)) => result.value = "0"

\* a key that is present with a falsy value: its string form, not "????"
C9_Witness ==
    /\ pc = "ret"
    /\ DOMAIN arg.d = {"x"}
    /\ arg.d["x"] = IntVal(0)
    /\ arg.k = "x"
    /\ result.value = "0"

-----------------------------------------------------------------------------
(* LoadOsRelease under test: one call on one /etc/os-release.              *)

OsAlphabet == {"K", "=", "\"", "v", " "}

\* every line of at most MaxLineLen characters over OsAlphabet, with and
\* without its newline
GeneratedLines ==
    UNION {{l \o nl : l \in [1..n -> OsAlphabet], nl \in {<<>>, <<"\n">>}} : n \in 0..MaxLineLen}

OsReleaseFiles ==
    {NoFile, File(UbuntuFile)}
        \cup {File(l) : l \in GeneratedLines}
        \cup {File(a \o b) : a, b \in SampleLines}

InitOsRelease ==
    /\ pc = "call"
    /\ arg \in OsReleaseFiles
    /\ result = Pending
    /\ Idle

CallLoadOsRelease ==
    /\ pc = "call"
    /\ result' = Return(LoadOsRelease(arg))
    /\ pc' = "ret"
    /\ UNCHANGED <<arg, mainVars>>

NextOsRelease == CallLoadOsRelease

SpecOsRelease == InitOsRelease /\ [][NextOsRelease]_vars

\* the entry a line adds when it is cut at its first "=" only
FirstEqualsLine(results, line) ==
    LET j == IndexOf(line, "=")
    IN  IF j = 0 THEN results
        ELSE DictSet(results, Strip(SubSeq(line, 1, j - 1), OsReleaseTrim),
                     Strip(SubSeq(line, j + 1, Len(line)), OsReleaseTrim))

RECURSIVE FirstEqualsLoop(_, _)
FirstEqualsLoop(results, lines) ==
    IF lines = <<>> THEN results
    ELSE FirstEqualsLoop(FirstEqualsLine(results, Head(lines)), Tail(lines))

UbuntuDict ==
    DictSet(DictSet(DictSet(EmptyDict, KeyNAME, <<"U", "b", "u", "n", "t", "u">>),
                    KeyVERSION_ID, <<"2", "2", ".", "0", "4">>),
            KeyVERSION_CODENAME, <<"j", "a", "m", "m", "y">>)

\* C7: every line with an "=" is cut at its first "=" only, the key the text
\* before it and the value all of the text after it, both trimmed of quotes,
\* spaces and newlines; other lines add nothing; the Ubuntu file gives
\* exactly NAME, VERSION_ID and VERSION_CODENAME.
C7_SplitAtFirstEquals ==
    pc = "ret" =>
        /\ result.value =
               (IF arg.exists THEN FirstEqualsLoop(EmptyDict, FileLines(arg.content))
                ELSE EmptyDict)
        /\ arg = File(UbuntuFile) => result.value = UbuntuDict

\* Where no line holds a second "=", C7 holds.
C7_HoldsForSingleEquals ==
    (pc = "ret" /\ arg.exists
        /\ \A j \in 1..Len(FileLines(arg.content)) :
               Len(Split(FileLines(arg.content)[j], "=")) <= 2) =>
        /\ result.value = FirstEqualsLoop(EmptyDict, FileLines(arg.content))
        /\ arg = File(UbuntuFile) => result.value = UbuntuDict


-----------------------------------------------------------------------------
(* Claims about main().                                                    *)

Ended == {"done", "failed", "interrupted"}

\* main has executed the OS section's add_row statement (lines 138-141)
PastOsRow == pc \in {"python", "uptime", "print", "done"} \/ error = "KeyError"

OsKeys == {KeyNAME, KeyVERSION_ID, KeyVERSION_CODENAME}

RowsLabelled(t, label) == {j \in 1..Len(t) : t[j].kind = "row" /\ t[j].label = label}

\* the field of the OS row for key k: its value, or the placeholder
OsField(k) == IF k \in DOMAIN os_release THEN Join(os_release[k]) ELSE "????"

\* C3: with /etc/os-release present and NAME, VERSION_ID or VERSION_CODENAME
\* missing, the missing field shows as "????" in the OS row and the run goes
\* on: a missing field never aborts the run.
C3_MissingKeyShowsPlaceholder ==
    (env.os_release_file.exists /\ ~(OsKeys \subseteq DOMAIN os_release) /\ PastOsRow) =>
        /\ error # "KeyError"
        /\ \E j \in RowsLabelled(table, "os:") :
               table[j].value =
                   OsField(KeyNAME) \o " " \o OsField(KeyVERSION_ID) \o " ("
                       \o OsField(KeyVERSION_CODENAME) \o ")"

\* C4: with /etc/os-release absent the OS step still produces an OS row
\* (from the kernel name and release) and the run completes normally.
C4_AbsentFileFallsBack ==
    (~env.os_release_file.exists /\ PastOsRow) =>
        /\ error # "KeyError"
        /\ RowsLabelled(table, "os:") # {}

\* C5: when the program has ended, on whichever path, the cursor is visible.
C5_CursorVisibleAtExit == pc \in Ended => cursor = TRUE

\* the section breaks of a table, and the rows between them
BreakIdx(t) == {j \in 1..Len(t) : t[j].kind = "section"}
NumBreaks(t) == Cardinality(BreakIdx(t))
KthBreak(t, k) ==
    IF k = 0 THEN 0
    ELSE CHOOSE j \in BreakIdx(t) : Cardinality({h \in BreakIdx(t) : h <= j}) = k
Group(t, k) == SubSeq(t, KthBreak(t, k - 1) + 1, KthBreak(t, k) - 1)
LabelsOf(rows) == [j \in 1..Len(rows) |-> rows[j].label]

SectionNames ==
    <<"CPU", "Memory", "Disk", "Network", "Geolocation", "OS", "Runtime", "Uptime">>

\* C6: the table is written at most once, and only after every section has
\* been added; a run that ends in an error has written no table and exits
\* with a non-zero status.
C6_PrintedOnceAfterAllSections ==
    /\ Len(output) <= 1
    /\ output # <<>> =>
           /\ output[1] = table
           /\ NumBreaks(table) = Len(SectionNames)
           /\ \A l \in {"cpu:", "mem:", "disk:", "public ip:", "os:", "python:", "uptime:"} :
                  RowsLabelled(table, l) # {}
    /\ error # "none" => (output = <<>> /\ exitStatus > 0 /\ pc \in Ended)
    /\ pc = "done" => (Len(output) = 1 /\ exitStatus = 0)

\* the geolocation request failed with four sections already built
C6_Witness ==
    /\ pc = "failed"
    /\ error = "URLError"
    /\ NumBreaks(table) = 4
    /\ RowsLabelled(table, "disk:") # {}
    /\ RowsLabelled(table, "lo:") # {}
    /\ output = <<>>
    /\ exitStatus = 1

\* the IPv4 addresses of an interface, by position in its address list
IPv4Idx(addrs) == {j \in 1..Len(addrs) : addrs[j].family = AF_INET}
KthIPv4(addrs, k) ==
    CHOOSE j \in IPv4Idx(addrs) : Cardinality({h \in IPv4Idx(addrs) : h <= j}) = k

\* the number of IPv4 addresses of the interfaces before the n-th
RECURSIVE RowsBefore(_, _)
RowsBefore(items, n) ==
    IF n <= 1 THEN 0
    ELSE RowsBefore(items, n - 1) + Cardinality(IPv4Idx(items[n - 1].addrs))

\* C8: in the Network section every interface has as many rows as it has
\* IPv4 addresses, in the collector's order; the first row of an interface
\* is labelled "<interface>:", its later rows "".
C8_NetworkRows ==
    NumBreaks(table) >= 4 =>
        LET rows == Group(table, 4)
        IN  /\ Len(rows) = RowsBefore(if_addrs, Len(if_addrs) + 1)
            /\ \A n \in 1..Len(if_addrs) :
                   \A k \in 1..Cardinality(IPv4Idx(if_addrs[n].addrs)) :
                       LET row == rows[RowsBefore(if_addrs, n) + k]
                           a   == if_addrs[n].addrs[KthIPv4(if_addrs[n].addrs, k)]
                       IN  /\ row.kind = "row"
                           /\ row.label = (IF k = 1 THEN if_addrs[n].interface \o ":" ELSE "")
                           /\ row.value = a.address \o " (" \o a.netmask \o ")"

\* two interfaces: one with two IPv4 addresses, one with an IPv6 address
\* first; the section holds the two rows of the first, then the second's
C8_Witness ==
    /\ pc = "geo"
    /\ Len(if_addrs) = 2
    /\ Cardinality(IPv4Idx(if_addrs[1].addrs)) = 2
    /\ Len(if_addrs[2].addrs) = 2
    /\ IPv4Idx(if_addrs[2].addrs) = {2}
    /\ LabelsOf(Group(table, 4)) = <<"lo:", "", "eth0:">>

\* the labels of the k-th section
SectionLabels(k) ==
    CASE k = 1 -> {<<"cpu:", "cores:", "arch:">>
                       \o (IF env.model_file.exists THEN <<"model:">> ELSE <<>>)}
      [] k = 2 -> {<<"mem:">>}
      [] k = 3 -> {<<"disk:">>}
      [] k = 4 -> {LabelsOf(Group(table, 4))}
      [] k = 5 -> {<<"public ip:", "location: ">>}
      [] k = 6 -> {<<"os:">>}
      [] k = 7 -> {<<"python:">>}
      [] k = 8 -> {<<"uptime:">>}

FixedLabels ==
    {"cpu:", "cores:", "arch:", "model:", "mem:", "disk:", "public ip:", "location: ", "os:",
     "python:", "uptime:"}

\* C10: the sections go into the table in the order CPU, Memory, Disk,
\* Network, Geolocation, OS, Runtime, Uptime, each closed by a section break,
\* so no row of a later section precedes a row of an earlier one; "model:" is
\* in the CPU section exactly when the device-tree model file exists; the
\* printed table holds all eight.
C10_SectionOrder ==
    /\ NumBreaks(table) <= Len(SectionNames)
    /\ table # <<>> => table[Len(table)].kind = "section"
    /\ \A k \in 1..NumBreaks(table) : LabelsOf(Group(table, k)) \in SectionLabels(k)
    /\ NumBreaks(table) >= 4 =>
           \A j \in 1..Len(Group(table, 4)) : Group(table, 4)[j].label \notin FixedLabels
    /\ pc = "done" => (output = <<table>> /\ NumBreaks(table) = Len(SectionNames))

\* a printed table with the model row and a Network section of three rows
C10_Witness ==
    /\ pc = "done"
    /\ env.model_file.exists
    /\ RowsLabelled(output[1], "model:") = {4}
    /\ Len(Group(output[1], 4)) = 3
    /\ NumBreaks(output[1]) = 8


====
